---- MODULE Spec2Model ----
(***************************************************************************)
(* Model of src/httpd/docker/fedora_install_package.py: a script that      *)
(* makes sure one exact package build (and, for kernels, the matching      *)
(* -devel package) is installed, trying three strategies per package.      *)
(*                                                                         *)
(* Python strings are modelled as sequences of one-character strings, so   *)
(* that slicing, basename, regular expressions and re.sub are computed     *)
(* the way the code computes them.  External commands are judged by their  *)
(* exit status only, which is chosen nondeterministically at each call.    *)
(***************************************************************************)
EXTENDS Integers, Sequences, FiniteSets, TLC

VARIABLES
    pc,            \* position of main(): "cmdline", "main", "probe", "loop", "exit0", "done"; "api" in SpecAPI
    argv,          \* sys.argv[1:], until _handle_command_line returns its 4-tuple
    verbose,       \* main's local 'verbose'
    name,          \* main's local 'name' as parsed
    pkg_nvr,       \* main's local 'pkg_nvr' as parsed
    build_id,      \* main's local 'build_id' as parsed
    packages,      \* main's list 'packages'
    idx,           \* 1-based position of the for loop in 'packages'
    strat,         \* next strategy for packages[idx]: "exists", "install", "download", "fail"
    pkgsys,        \* the PkgSystem instance's fields
    fs_link,       \* /usr/lib/debug/.build-id/..: path -> directory entry
    repo_file,     \* TRUE iff /etc/yum.repos.d/local.repo exists
    root_dirs,     \* the download directories /root/<arch> that exist (set of <arch>)
    which_found,   \* the commands which() found on PATH when PkgSystem.__init__ probed
    log,           \* history: external commands, validator calls and file operations, in order
    calls,         \* history: calls of PkgSystem methods with their results, in order
    stderr,        \* history: diagnostics printed with _eprint
    exit_code,     \* process exit status, -1 while running
    exc            \* "none", or the exception that left the call or killed the process

vars == <<pc, argv, verbose, name, pkg_nvr, build_id, packages, idx, strat,
          pkgsys, fs_link, repo_file, root_dirs, which_found, log, calls,
          stderr, exit_code, exc>>

----------------------------------------------------------------------------
(* Strings *)

Letters ==
    {"a","b","c","d","e","f","g","h","i","j","k","l","m","n","o","p","q",
     "r","s","t","u","v","w","x","y","z",
     "A","B","C","D","E","F","G","H","I","J","K","L","M","N","O","P","Q",
     "R","S","T","U","V","W","X","Y","Z"}

Digits == {"0","1","2","3","4","5","6","7","8","9"}

\* The characters the regular expression class \w matches.
IsWord(c) == c \in Letters \cup Digits \cup {"_"}

AllWord(s) == \A i \in 1..Len(s) : IsWord(s[i])

\* s[:n] and s[n:] of Python, which never fail on short strings.
Take(s, n) == SubSeq(s, 1, IF n < Len(s) THEN n ELSE Len(s))
Drop(s, n) == SubSeq(s, n + 1, Len(s))

IsPrefix(p, s) == Len(p) <= Len(s) /\ SubSeq(s, 1, Len(p)) = p

\* Positions of character c in s.
Positions(s, c) == {i \in 1..Len(s) : s[i] = c}

MaxOf(S) == CHOOSE m \in S : \A x \in S : x <= m

\* os.path.basename: everything after the last "/".
Basename(p) ==
    IF Positions(p, "/") = {} THEN p ELSE Drop(p, MaxOf(Positions(p, "/")))

\* str.lower() on the characters the model uses in distribution names.
LowerChar(c) ==
    CASE c = "F" -> "f"
      [] c = "U" -> "u"
      [] c = "E" -> "e"
      [] c = "D" -> "d"
      [] c = "O" -> "o"
      [] c = "R" -> "r"
      [] c = "A" -> "a"
      [] OTHER -> c

Lower(s) == [i \in 1..Len(s) |-> LowerChar(s[i])]

IsSpace(c) == c \in {" ", "\n", "\t"}

RECURSIVE LStrip(_)
LStrip(s) == IF s # <<>> /\ IsSpace(s[1]) THEN LStrip(Tail(s)) ELSE s

RECURSIVE RStrip(_)
RStrip(s) ==
    IF s # <<>> /\ IsSpace(s[Len(s)]) THEN RStrip(SubSeq(s, 1, Len(s) - 1)) ELSE s

\* str.strip()
Strip(s) == RStrip(LStrip(s))

\* re.sub(pat, repl, s) for a pattern of literal characters: every
\* non-overlapping occurrence of pat, leftmost first, becomes repl.
RECURSIVE ReSub(_, _, _)
ReSub(pat, repl, s) ==
    IF s = <<>> THEN <<>>
    ELSE IF IsPrefix(pat, s) THEN repl \o ReSub(pat, repl, Drop(s, Len(pat)))
    ELSE <<s[1]>> \o ReSub(pat, repl, Tail(s))

\* Python's None where a string (a sequence) is expected.
NoneStr == <<"<None>">>

\* Python's None where a path to an executable is expected.
None == "None"

S_kernel == <<"k","e","r","n","e","l">>
S_vmlinux == <<"v","m","l","i","n","u","x">>
S_devel == <<"-","d","e","v","e","l">>
S_fedora == <<"f","e","d","o","r","a">>
S_bash == <<"b","a","s","h">>

NVR_bash ==
    <<"b","a","s","h","-","5",".","1",".","0","-","1",".","f","c","3","4",
      ".","x","8","6","_","6","4">>

NVR_kernel ==
    <<"k","e","r","n","e","l","-","5",".","1","0",".","0","-","1",".",
      "x","8","6","_","6","4">>

BID_ab12 == <<"a","b","1","2">>

----------------------------------------------------------------------------
(* Command line *)

\* argv tokens: -v, --name=V, --pkg=V, --build_id=V, an option getopt does
\* not know, and a non-option argument.
OptV == [k |-> "short", o |-> "v", v |-> <<>>]
OptLong(o, v) == [k |-> "long", o |-> o, v |-> v]
OptBogus == [k |-> "long", o |-> "bogus", v |-> <<>>]
ArgPos == [k |-> "arg", o |-> "", v |-> <<"x">>]

LongOpts == {"name", "pkg", "build_id"}

\* getopt.getopt(args, 'v', ['name=', 'pkg=', 'build_id=']): options are
\* read left to right up to the first non-option argument; the rest is
\* pargs; an unknown option raises GetoptError.
RECURSIVE Getopt(_, _)
Getopt(args, opts) ==
    IF args = <<>> THEN [err |-> FALSE, opts |-> opts, pargs |-> <<>>]
    ELSE IF args[1].k = "arg" THEN [err |-> FALSE, opts |-> opts, pargs |-> args]
    ELSE IF args[1].k = "long" /\ args[1].o \notin LongOpts
        THEN [err |-> TRUE, opts |-> opts, pargs |-> <<>>]
    ELSE Getopt(Tail(args), Append(opts, args[1]))

\* The for loop of _handle_command_line over opts: a later option
\* overrides an earlier one, each -v adds one to verbose.
RECURSIVE ApplyOpts(_, _)
ApplyOpts(opts, acc) ==
    IF opts = <<>> THEN acc
    ELSE LET o == opts[1] IN
         ApplyOpts(Tail(opts),
            IF o.k = "short" THEN [acc EXCEPT !.verbose = @ + 1]
            ELSE IF o.o = "name" THEN [acc EXCEPT !.name = o.v]
            ELSE IF o.o = "pkg" THEN [acc EXCEPT !.pkg_nvr = o.v]
            ELSE [acc EXCEPT !.build_id = o.v])

ParsedOpts(args) ==
    ApplyOpts(Getopt(args, <<>>).opts,
              [verbose |-> 0, name |-> <<>>, pkg_nvr |-> <<>>, build_id |-> <<>>])

\* Mutant: the 'if pargs' test (line 265) dropped.
CommandLineVerdict_accepts_pargs(args) ==
    IF Len(args) + 1 < 4 THEN "short"
    ELSE IF Getopt(args, <<>>).err THEN "getopt"
    ELSE IF \/ ParsedOpts(args).name = <<>>
            \/ ParsedOpts(args).pkg_nvr = <<>>
            \/ ParsedOpts(args).build_id = <<>> THEN "required"
    ELSE "ok"

\* Mutant: 'not build_id' dropped from the test of line 267.
CommandLineVerdict_optional_build_id(args) ==
    IF Len(args) + 1 < 4 THEN "short"
    ELSE IF Getopt(args, <<>>).err THEN "getopt"
    ELSE IF Getopt(args, <<>>).pargs # <<>> THEN "pargs"
    ELSE IF \/ ParsedOpts(args).name = <<>>
            \/ ParsedOpts(args).pkg_nvr = <<>> THEN "required"
    ELSE "ok"

\* Which exit of _handle_command_line a command line takes: the _usage()
\* call that ends the process, or "ok" when the 4-tuple is returned.
CommandLineVerdict(args) ==
    IF Len(args) + 1 < 4 THEN "short"
    ELSE IF Getopt(args, <<>>).err THEN "getopt"
    ELSE IF Getopt(args, <<>>).pargs # <<>> THEN "pargs"
    ELSE IF \/ ParsedOpts(args).name = <<>>
            \/ ParsedOpts(args).pkg_nvr = <<>>
            \/ ParsedOpts(args).build_id = <<>> THEN "required"
    ELSE "ok"

\* What _handle_command_line prints to stderr before sys.exit(1).
UsageDiagnostics(verdict) ==
    CASE verdict = "getopt" -> <<"Error: getopt", "Usage">>
      [] verdict = "required" -> <<"Error: required arguments", "Usage">>
      [] OTHER -> <<"Usage">>

----------------------------------------------------------------------------
(* Descriptors: main(), lines 279-293 *)

Descriptor(n, nvr, bid) == [name |-> n, nvr |-> nvr, build_id |-> bid]

\* kernel_regexp = r'^kernel(-\w+)?' used with match(): anchored at the
\* start only, and the group is optional, so it matches exactly the names
\* that begin with "kernel".
KernelRegexpMatch(n) == IsPrefix(S_kernel, n)

BuildPackageList(n, nvr, bid) ==
    IF KernelRegexpMatch(n)
    THEN << Descriptor(n, nvr, bid),
            Descriptor(n \o S_devel, ReSub(n, n \o S_devel, nvr), <<>>) >>
    ELSE << Descriptor(n, nvr, bid) >>

----------------------------------------------------------------------------
(* File system seen by PkgSystem *)

Absent == [kind |-> "absent", target |-> <<>>]
RegularFile == [kind |-> "file", target |-> <<>>]
\* A symbolic link whose target exists / does not exist.
Link(t) == [kind |-> "link", target |-> t]
Dangling(t) == [kind |-> "dangling", target |-> t]

\* os.path.exists follows symbolic links: false for a dangling link.
PathExists(e) == e.kind \in {"file", "link"}

EntryAt(links, p) == IF p \in DOMAIN links THEN links[p] ELSE Absent

BuildIdPath(bid) == <<"/usr/lib/debug/.build-id/">> \o Take(bid, 2) \o <<"/">> \o Drop(bid, 2)

LocalRepoPath == "/etc/yum.repos.d/local.repo"

\* '/root/%s' % pkg_arch
LocalRpmDir(arch) == <<"/root/">> \o arch

World(links, repo, dirs) == [links |-> links, repo |-> repo, dirs |-> dirs]

----------------------------------------------------------------------------
(* PkgSystem *)

\* The class attributes, lines 40-47.  __verbose stays 0: __init__ assigns
\* its argument to a local variable (line 50).  __release is never read.
PkgSystemClass ==
    [verbose |-> 0, distro_id |-> NoneStr, pkgr_path |-> None,
     pkgmgr_path |-> None, debuginfo_install |-> <<None>>, wget_path |-> None,
     local_repo_path |-> "", local_rpm_dir |-> <<>>]

Tools == {"lsb_release", "rpm", "dnf", "yum", "debuginfo-install", "wget"}

\* which(cmd), given the commands present in some PATH directory.
Which(found, cmd) == IF cmd \in found THEN "/usr/bin/" \o cmd ELSE None

\* What 'lsb_release -is' prints; NoneStr stands for CalledProcessError.
LsbOutputs ==
    { <<"F","e","d","o","r","a","\n">>, <<"U","b","u","n","t","u","\n">>, NoneStr }

\* platform.linux_distribution()[0]; '' when the platform is not recognised.
PlatformOutputs == { <<"F","e","d","o","r","a">>, <<>> }

\* Lines 59-74.
DetectDistro(found, lsb_out, plat) ==
    IF "lsb_release" \in found /\ lsb_out # NoneStr THEN Strip(lsb_out) ELSE plat

\* Lines 85-89.
PkgmgrPath(found) ==
    IF Which(found, "dnf") # None THEN Which(found, "dnf") ELSE Which(found, "yum")

DebuginfoInstall(found) ==
    IF Which(found, "dnf") # None THEN <<Which(found, "dnf"), "debuginfo-install">>
    ELSE <<Which(found, "debuginfo-install")>>

\* The instance __init__ leaves behind (when it does not exit).
Probe(found, lsb_out, plat) ==
    [PkgSystemClass EXCEPT
        !.distro_id = DetectDistro(found, lsb_out, plat),
        !.pkgr_path = Which(found, "rpm"),
        !.pkgmgr_path = PkgmgrPath(found),
        !.debuginfo_install = DebuginfoInstall(found),
        !.wget_path = Which(found, "wget")]

\* The fields assigned before __init__ gave up: at line 81 only the
\* distribution, at line 92 also the query tool and the debug-info command.
ProbeAborted(found, lsb_out, plat) ==
    IF Which(found, "rpm") = None
    THEN [PkgSystemClass EXCEPT !.distro_id = DetectDistro(found, lsb_out, plat)]
    ELSE [PkgSystemClass EXCEPT
            !.distro_id = DetectDistro(found, lsb_out, plat),
            !.pkgr_path = Which(found, "rpm"),
            !.debuginfo_install = <<Which(found, "debuginfo-install")>>]

\* Mutant: a missing downloader is fatal too.
ProbeFatal_needs_wget(found) ==
    IF Which(found, "rpm") = None THEN "Can't find the 'rpm' executable."
    ELSE IF PkgmgrPath(found) = None THEN "Can't find a package manager"
    ELSE IF Which(found, "wget") = None THEN "Can't find wget"
    ELSE "none"

\* "none", or the diagnostic of the sys.exit(1) in __init__.
ProbeFatal(found) ==
    IF Which(found, "rpm") = None THEN "Can't find the 'rpm' executable."
    ELSE IF PkgmgrPath(found) = None THEN "Can't find a package manager"
    ELSE "none"

Event(cmd, arg, rc) == [cmd |-> cmd, arg |-> arg, rc |-> rc]

\* What a method call yields: its return value (0/1), the exception that
\* left it ("none" if it returned), the events and diagnostics it produced,
\* and the instance and file system it leaves behind.
Outcome(ret, ex, ev, err, self, w) ==
    [ret |-> ret, exc |-> ex, ev |-> ev, err |-> err, self |-> self, w |-> w]

\* Mutant: the 'kernel' -> 'vmlinux' alias (lines 116-117) dropped.
NormalizedName_no_alias(n) == Basename(n)

\* build_id_is_valid, lines 99-124, as [ret, exc].
NormalizedName(n) == IF n = S_kernel THEN S_vmlinux ELSE Basename(n)

BuildIdIsValid(n, bid, links) ==
    LET e == EntryAt(links, BuildIdPath(bid)) IN
    IF ~PathExists(e) THEN [ret |-> 0, exc |-> "none"]
    \* os.readlink of something that is not a symbolic link raises OSError
    ELSE IF e.kind # "link" THEN [ret |-> 0, exc |-> "OSError"]
    ELSE IF Basename(e.target) # NormalizedName(n) THEN [ret |-> 0, exc |-> "none"]
    ELSE [ret |-> 1, exc |-> "none"]

ValidateOutcome(ev, self, w, n, bid) ==
    LET v == BuildIdIsValid(n, bid, w.links) IN
    Outcome(v.ret, v.exc, Append(ev, Event("validate", bid, v.ret)), <<>>, self, w)

\* Mutant: the build id is never looked at.
SkipsVerification_always(bid) == TRUE

\* Mutant: an empty build id is verified like any other.
SkipsVerification_never(bid) == FALSE

\* 'if not build_id', lines 130 and 142: an empty build id means the
\* package is taken on the command's word.
SkipsVerification(bid) == bid = <<>>

\* pkg_exists, lines 126-135.
PkgExists(self, w, n, nvr, bid) ==
    { Outcome(0, "none", <<Event("query", nvr, 1)>>, <<>>, self, w) }
    \cup
    ( IF SkipsVerification(bid)
      THEN { Outcome(1, "none", <<Event("query", nvr, 0)>>, <<>>, self, w) }
      ELSE { ValidateOutcome(<<Event("query", nvr, 0)>>, self, w, n, bid) } )

\* Targets a debug-info package may point the build id link at.
LinkTargets ==
    { <<"/","u","s","r","/","b","i","n","/","b","a","s","h">>,
      <<"/","b","o","o","t","/","v","m","l","i","n","u","x">> }

\* The build-id links after the debug-info installer exited 0: as before,
\* or with the link of this build id (re)created by the installed package.
LinksAfterDebuginfo(links, bid) ==
    { links } \cup
    { [p \in DOMAIN links \cup {BuildIdPath(bid)} |->
          IF p = BuildIdPath(bid) THEN Link(t) ELSE links[p]] : t \in LinkTargets }

\* Mutant: the exit status of the debug-info installer is not looked at.
PkgInstall_unchecked_debuginfo(self, w, n, nvr, bid, ev0) ==
    { Outcome(0, "none", Append(ev0, Event("install", nvr, 1)), <<>>, self, w) }
    \cup
    ( LET ev1 == Append(ev0, Event("install", nvr, 0)) IN
      IF SkipsVerification(bid) THEN { Outcome(1, "none", ev1, <<>>, self, w) }
      ELSE IF self.debuginfo_install[1] = None
      THEN { Outcome(0, "TypeError", Append(ev1, Event("debuginfo", nvr, -1)), <<>>, self, w) }
      ELSE { ValidateOutcome(Append(ev1, Event("debuginfo", nvr, 1)), self, w, n, bid) }
           \cup
           { ValidateOutcome(Append(ev1, Event("debuginfo", nvr, 0)), self,
                             [w EXCEPT !.links = l], n, bid)
               : l \in LinksAfterDebuginfo(w.links, bid) } )

\* pkg_install, lines 137-151.  ev0 are the events of the caller so far.
PkgInstall(self, w, n, nvr, bid, ev0) ==
    { Outcome(0, "none", Append(ev0, Event("install", nvr, 1)), <<>>, self, w) }
    \cup
    ( LET ev1 == Append(ev0, Event("install", nvr, 0)) IN
      IF SkipsVerification(bid) THEN { Outcome(1, "none", ev1, <<>>, self, w) }
      \* subprocess.call([None, '-y', nvr]) raises TypeError
      ELSE IF self.debuginfo_install[1] = None
      THEN { Outcome(0, "TypeError", Append(ev1, Event("debuginfo", nvr, -1)), <<>>, self, w) }
      ELSE { Outcome(0, "none", Append(ev1, Event("debuginfo", nvr, 1)), <<>>, self, w) }
           \cup
           { ValidateOutcome(Append(ev1, Event("debuginfo", nvr, 0)), self,
                             [w EXCEPT !.links = l], n, bid)
               : l \in LinksAfterDebuginfo(w.links, bid) } )

\* Mutant: the name group admits hyphens, '^([\w-]+)-([^-]+)-([^-]+)\.(\w+)$'.
NvraMatch_hyphenated_name(nvr) ==
    LET h == Positions(nvr, "-")
        h2 == MaxOf(h)
        h1 == MaxOf(h \ {h2})
        rest == Drop(nvr, h2)
        d == IF Positions(rest, ".") = {} THEN 0 ELSE MaxOf(Positions(rest, "."))
    IN  IF /\ Cardinality(h) >= 2
           /\ h1 > 1
           /\ \A x \in 1..(h1 - 1) : IsWord(nvr[x]) \/ nvr[x] = "-"
           /\ h2 > h1 + 1
           /\ d > 1 /\ d < Len(rest) /\ AllWord(Drop(rest, d))
        THEN [ok |-> TRUE, name |-> Take(nvr, h1 - 1),
              version |-> SubSeq(nvr, h1 + 1, h2 - 1),
              release |-> Take(rest, d - 1), arch |-> Drop(rest, d)]
        ELSE [ok |-> FALSE, name |-> <<>>, version |-> <<>>,
              release |-> <<>>, arch |-> <<>>]

\* Mutant: the version group admits hyphens, '^(\w+)-(.+)-([^-]+)\.(\w+)$'.
NvraMatch_any_hyphens(nvr) ==
    LET h == Positions(nvr, "-")
        h1 == CHOOSE i \in h : \A j \in h : i <= j
        h2 == MaxOf(h)
        rest == Drop(nvr, h2)
        d == IF Positions(rest, ".") = {} THEN 0 ELSE MaxOf(Positions(rest, "."))
    IN  IF /\ Cardinality(h) >= 2
           /\ h1 > 1 /\ AllWord(Take(nvr, h1 - 1))
           /\ h2 > h1 + 1
           /\ d > 1 /\ d < Len(rest) /\ AllWord(Drop(rest, d))
        THEN [ok |-> TRUE, name |-> Take(nvr, h1 - 1),
              version |-> SubSeq(nvr, h1 + 1, h2 - 1),
              release |-> Take(rest, d - 1), arch |-> Drop(rest, d)]
        ELSE [ok |-> FALSE, name |-> <<>>, version |-> <<>>,
              release |-> <<>>, arch |-> <<>>]

\* nvra_regexp = r'^(\w+)-([^-]+)-([^-]+)\.(\w+)$' with match(): exactly two
\* hyphens; a name of word characters; a non-empty version; and after the
\* second hyphen a non-empty release, a dot and an architecture of word
\* characters (the dot is the last one, as \w matches no dot).
NvraMatch(nvr) ==
    LET h == Positions(nvr, "-")
        h1 == CHOOSE i \in h : \A j \in h : i <= j
        h2 == MaxOf(h)
        rest == Drop(nvr, h2)
        d == IF Positions(rest, ".") = {} THEN 0 ELSE MaxOf(Positions(rest, "."))
    IN  IF /\ Cardinality(h) = 2
           /\ h1 > 1 /\ AllWord(Take(nvr, h1 - 1))
           /\ h2 > h1 + 1
           /\ d > 1 /\ d < Len(rest) /\ AllWord(Drop(rest, d))
        THEN [ok |-> TRUE, name |-> Take(nvr, h1 - 1),
              version |-> SubSeq(nvr, h1 + 1, h2 - 1),
              release |-> Take(rest, d - 1), arch |-> Drop(rest, d)]
        ELSE [ok |-> FALSE, name |-> <<>>, version |-> <<>>,
              release |-> <<>>, arch |-> <<>>]

\* Mutant: the distribution test of lines 157-158 dropped.
CanDownload_ignores_distro(self) == self.wget_path # None

\* Lines 157-158.
CanDownload(self) ==
    ~ ( \/ self.wget_path = None
        \/ self.distro_id = NoneStr
        \/ Lower(self.distro_id) # S_fedora )

\* Mutant: the repo file is written on every pass.
WritesRepoFile_always(w) == TRUE

\* 'if not os.path.exists(self.__local_repo_path)', line 209.
WritesRepoFile(w) == ~w.repo

\* pkg_download_and_install, lines 153-226.
PkgDownloadAndInstall(self, w, n, nvr, bid) ==
    LET m == NvraMatch(nvr)
        \* wget exited 0: it made the directory <arch> in /root unless it was there
        wget0 == IF LocalRpmDir(m.arch) \in w.dirs
                 THEN <<Event("wget", nvr, 0)>>
                 ELSE <<Event("wget", nvr, 0), Event("mkdir", LocalRpmDir(m.arch), 0)>>
        self1 == [self EXCEPT !.local_repo_path = LocalRepoPath,
                              !.local_rpm_dir = LocalRpmDir(m.arch)]
        \* the repo file is written unless it exists
        w1 == [w EXCEPT !.dirs = @ \cup {LocalRpmDir(m.arch)}, !.repo = TRUE]
        ev1 == IF WritesRepoFile(w) THEN Append(wget0, Event("write_repo", nvr, 0))
               ELSE wget0
    IN
    IF ~CanDownload(self)
    THEN { Outcome(0, "none", <<>>, <<"Can't download package">>, self, w) }
    ELSE IF ~m.ok
    THEN { Outcome(0, "none", <<>>, <<"Can't parse package nvr">>, self, w) }
    ELSE
      { Outcome(0, "none", <<Event("wget", nvr, 1)>>, <<"Can't download package">>, self, w) }
      \cup
      { Outcome(0, "none", Append(ev1, Event("createrepo", m.arch, 1)),
                <<"Can't run createrepo_c">>, self1, w1) }
      \cup
      \* createrepo_c is never looked up beforehand: subprocess.call raises
      \* OSError when it is not installed
      { Outcome(0, "OSError", Append(ev1, Event("createrepo", m.arch, -1)), <<>>, self1, w1) }
      \cup
      PkgInstall(self1, w1, n, nvr, bid, Append(ev1, Event("createrepo", m.arch, 0)))

\* Mutant: cleanup removes nothing.
Cleanup_removes_nothing(self, w) == Outcome(0, "none", <<>>, <<>>, self, w)

\* cleanup, lines 228-233.  os.remove and shutil.rmtree raise OSError when
\* their argument does not exist.
Cleanup(self, w) ==
    LET rm == self.local_repo_path # ""
        ev1 == IF rm THEN <<Event("remove", <<>>, 0)>> ELSE <<>>
        w1 == IF rm THEN [w EXCEPT !.repo = FALSE] ELSE w
    IN
    IF rm /\ ~w.repo
    THEN Outcome(0, "OSError", <<Event("remove", <<>>, -1)>>, <<>>, self, w)
    ELSE IF self.local_rpm_dir = <<>>
    THEN Outcome(0, "none", ev1, <<>>, self, w1)
    ELSE IF self.local_rpm_dir \notin w1.dirs
    THEN Outcome(0, "OSError", Append(ev1, Event("rmtree", self.local_rpm_dir, -1)), <<>>, self, w1)
    ELSE Outcome(0, "none", Append(ev1, Event("rmtree", self.local_rpm_dir, 0)), <<>>, self,
                 [w1 EXCEPT !.dirs = @ \ {self.local_rpm_dir}])

----------------------------------------------------------------------------
(* Bounds and input sets *)

\* Longest command line (number of arguments after the program name).
MaxArgs == 3

Names == {S_bash, S_kernel}
Nvrs == {NVR_bash, NVR_kernel}
BuildIds == {<<>>, BID_ab12}

Tokens ==
    {OptV, OptBogus, ArgPos}
    \cup {OptLong("name", n) : n \in Names}
    \cup {OptLong("pkg", p) : p \in Nvrs}
    \cup {OptLong("build_id", b) : b \in BuildIds}

CommandLinesUpTo(max) == UNION {[1..n -> Tokens] : n \in 0..max}

CommandLines == CommandLinesUpTo(MaxArgs)

\* Longest command line when the host is left plain (no repo file, no
\* download directory before the run).
MaxLongArgs == 4

\* What may be at the build-id path before the run.
InitialEntries == {Absent, RegularFile} \cup {Link(t) : t \in LinkTargets}

InitialLinks == [{BuildIdPath(BID_ab12)} -> InitialEntries]

InitialDirs == SUBSET {LocalRpmDir(NvraMatch(NVR_bash).arch)}

----------------------------------------------------------------------------
(* main() *)

Started(lines) ==
    /\ pc = "cmdline"
    /\ argv \in lines
    /\ verbose = 0
    /\ name = <<>>
    /\ pkg_nvr = <<>>
    /\ build_id = <<>>
    /\ packages = <<>>
    /\ idx = 0
    /\ strat = "none"
    /\ pkgsys = PkgSystemClass
    /\ which_found = {}
    /\ log = <<>>
    /\ calls = <<>>
    /\ stderr = <<>>
    /\ exit_code = -1
    /\ exc = "none"

Init ==
    /\ Started(CommandLines)
    /\ fs_link \in InitialLinks
    /\ repo_file \in BOOLEAN
    /\ root_dirs \in InitialDirs

\* Longer command lines on a host without repo file and download directory.
InitCmdLine ==
    /\ Started(CommandLinesUpTo(MaxLongArgs))
    /\ fs_link \in InitialLinks
    /\ repo_file = FALSE
    /\ root_dirs = {}

\* sys.exit(code), also the end of a process killed by an uncaught
\* exception (which Python reports with exit status 1).
ProcessExit(code, ex) ==
    /\ pc' = "done"
    /\ exit_code' = code
    /\ exc' = ex

\* Line 274: _handle_command_line, lines 241-270, with _usage, lines 235-239.
HandleCommandLine ==
    /\ pc = "cmdline"
    /\ IF CommandLineVerdict(argv) = "ok"
       THEN /\ argv' = <<>>
            /\ verbose' = ParsedOpts(argv).verbose
            /\ name' = ParsedOpts(argv).name
            /\ pkg_nvr' = ParsedOpts(argv).pkg_nvr
            /\ build_id' = ParsedOpts(argv).build_id
            /\ pc' = "main"
            /\ UNCHANGED <<stderr, exit_code, exc>>
       ELSE /\ stderr' = stderr \o UsageDiagnostics(CommandLineVerdict(argv))
            /\ ProcessExit(1, "none")
            /\ UNCHANGED <<argv, verbose, name, pkg_nvr, build_id>>
    /\ UNCHANGED <<packages, idx, strat, pkgsys, fs_link, repo_file, root_dirs,
                   which_found, log, calls>>

\* Lines 276-293.
BuildPackages ==
    /\ pc = "main"
    /\ packages' = BuildPackageList(name, pkg_nvr, build_id)
    /\ pc' = "probe"
    /\ UNCHANGED <<argv, verbose, name, pkg_nvr, build_id, idx, strat, pkgsys,
                   fs_link, repo_file, root_dirs, which_found, log, calls,
                   stderr, exit_code, exc>>

\* Line 295: PkgSystem.__init__, lines 49-97.
PkgSystemInit ==
    /\ pc = "probe"
    /\ \E found \in SUBSET Tools, lsb_out \in LsbOutputs, plat \in PlatformOutputs :
          /\ which_found' = found
          /\ IF ProbeFatal(found) = "none"
             THEN /\ pkgsys' = Probe(found, lsb_out, plat)
                  /\ pc' = "loop"
                  /\ idx' = 1
                  /\ strat' = "exists"
                  /\ UNCHANGED <<stderr, exit_code, exc>>
             ELSE /\ pkgsys' = ProbeAborted(found, lsb_out, plat)
                  /\ stderr' = Append(stderr, ProbeFatal(found))
                  /\ ProcessExit(1, "none")
                  /\ UNCHANGED <<idx, strat>>
    /\ UNCHANGED <<argv, verbose, name, pkg_nvr, build_id, packages, fs_link,
                   repo_file, root_dirs, log, calls>>

Tag(ev, i) ==
    [k \in 1..Len(ev) |->
        [cmd |-> ev[k].cmd, arg |-> ev[k].arg, rc |-> ev[k].rc, i |-> i]]

Call(m, i, args, o) == [m |-> m, i |-> i, args |-> args, ret |-> o.ret, exc |-> o.exc]

\* The effects of a method call on the instance, the file system and the
\* histories.
Effects(m, i, args, o) ==
    /\ pkgsys' = o.self
    /\ fs_link' = o.w.links
    /\ repo_file' = o.w.repo
    /\ root_dirs' = o.w.dirs
    /\ log' = log \o Tag(o.ev, i)
    /\ calls' = Append(calls, Call(m, i, args, o))
    /\ stderr' = stderr \o o.err

\* Mutant: a failed pkg_install is tried again.
NextStrategy_retries_install(s) ==
    CASE s = "exists" -> "install"
      [] s = "install" -> "install"
      [] OTHER -> "fail"

NextStrategy(s) ==
    CASE s = "exists" -> "install"
      [] s = "install" -> "download"
      [] OTHER -> "fail"

\* Mutant: the 'continue' statements dropped.
Continues_never(ret) == FALSE

\* 'if pkgsys.<strategy>(...): continue', lines 298-308.
Continues(ret) == ret # 0

\* One 'if' of the loop body with the method call it makes.
LoopStep(m, o) ==
    /\ Effects(m, idx, <<packages[idx].name, packages[idx].nvr, packages[idx].build_id>>, o)
    /\ IF o.exc # "none"
       THEN /\ ProcessExit(1, o.exc)
            /\ UNCHANGED <<idx, strat>>
       ELSE IF Continues(o.ret)
       THEN /\ idx' = idx + 1
            /\ strat' = "exists"
            /\ UNCHANGED <<pc, exit_code, exc>>
       ELSE /\ strat' = NextStrategy(strat)
            /\ UNCHANGED <<pc, idx, exit_code, exc>>
    /\ UNCHANGED <<argv, verbose, name, pkg_nvr, build_id, packages, which_found>>

InLoop(s) == pc = "loop" /\ idx <= Len(packages) /\ strat = s

CurWorld == World(fs_link, repo_file, root_dirs)

\* Line 298.
TryPkgExists ==
    /\ InLoop("exists")
    /\ \E o \in PkgExists(pkgsys, CurWorld, packages[idx].name, packages[idx].nvr,
                          packages[idx].build_id) :
          LoopStep("pkg_exists", o)

\* Line 302.
TryPkgInstall ==
    /\ InLoop("install")
    /\ \E o \in PkgInstall(pkgsys, CurWorld, packages[idx].name, packages[idx].nvr,
                           packages[idx].build_id, <<>>) :
          LoopStep("pkg_install", o)

\* Line 307.
TryPkgDownloadAndInstall ==
    /\ InLoop("download")
    /\ \E o \in PkgDownloadAndInstall(pkgsys, CurWorld, packages[idx].name,
                                      packages[idx].nvr, packages[idx].build_id) :
          LoopStep("pkg_download_and_install", o)

\* Mutant: the sys.exit(1) of line 311 dropped, so the loop goes on.
GiveUp_goes_on ==
    /\ pc = "loop" /\ idx <= Len(packages) /\ strat = "fail"
    /\ stderr' = Append(stderr, "Can't find package")
    /\ idx' = idx + 1
    /\ strat' = "exists"
    /\ UNCHANGED <<pc, argv, verbose, name, pkg_nvr, build_id, packages,
                   pkgsys, fs_link, repo_file, root_dirs, which_found, log, calls,
                   exit_code, exc>>

\* Lines 310-311.
GiveUp ==
    /\ InLoop("fail")
    /\ stderr' = Append(stderr, "Can't find package")
    /\ ProcessExit(1, "none")
    /\ UNCHANGED <<argv, verbose, name, pkg_nvr, build_id, packages, idx, strat,
                   pkgsys, fs_link, repo_file, root_dirs, which_found, log, calls>>

\* Lines 313-317, reached when the for loop is exhausted.
RunsCleanup == pc = "loop" /\ idx > Len(packages)

MainCleanup ==
    /\ RunsCleanup
    /\ Effects("cleanup", 0, <<>>, Cleanup(pkgsys, CurWorld))
    /\ IF Cleanup(pkgsys, CurWorld).exc # "none"
       THEN ProcessExit(1, Cleanup(pkgsys, CurWorld).exc)
       ELSE pc' = "exit0" /\ UNCHANGED <<exit_code, exc>>
    /\ UNCHANGED <<argv, verbose, name, pkg_nvr, build_id, packages, idx, strat,
                   which_found>>

\* Line 319.
MainExit ==
    /\ pc = "exit0"
    /\ ProcessExit(0, "none")
    /\ UNCHANGED <<argv, verbose, name, pkg_nvr, build_id, packages, idx, strat,
                   pkgsys, fs_link, repo_file, root_dirs, which_found, log, calls,
                   stderr>>

Next ==
    \/ HandleCommandLine
    \/ BuildPackages
    \/ PkgSystemInit
    \/ TryPkgExists
    \/ TryPkgInstall
    \/ TryPkgDownloadAndInstall
    \/ GiveUp
    \/ MainCleanup
    \/ MainExit

Spec == Init /\ [][Next]_vars

SpecCmdLine == InitCmdLine /\ [][Next]_vars

----------------------------------------------------------------------------
(* PkgSystem driven directly: any caller of the class, not only main() *)

\* Most calls one caller makes.
MaxApiCalls == 3

\* Most validator calls one caller makes.
MaxValidations == 2

S_usr_bin_bash == <<"/","u","s","r","/","b","i","n","/","b","a","s","h">>
S_kernel_PAE == <<"k","e","r","n","e","l","-","P","A","E">>

ValNames == {S_kernel, S_kernel_PAE, S_bash, S_usr_bin_bash, S_vmlinux}
ValBuildIds == {BID_ab12, <<"a">>}

ValEntries ==
    {Absent, RegularFile, Dangling(S_vmlinux), Link(S_vmlinux), Link(S_kernel)}
    \cup {Link(t) : t \in LinkTargets}

\* A fully equipped Fedora host, and one with yum but no debuginfo-install.
ApiFound == {Tools, Tools \ {"dnf", "debuginfo-install"}}

ApiDescriptors ==
    {Descriptor(S_bash, NVR_bash, BID_ab12), Descriptor(S_kernel, NVR_kernel, <<>>)}

\* The state right after PkgSystem(verbose) returned.
Constructed(found) ==
    /\ pc = "api"
    /\ argv = <<>>
    /\ verbose = 0
    /\ name = <<>>
    /\ pkg_nvr = <<>>
    /\ build_id = <<>>
    /\ packages = <<>>
    /\ idx = 0
    /\ strat = "none"
    /\ which_found = found
    /\ pkgsys = Probe(found, <<"F","e","d","o","r","a","\n">>, <<>>)
    /\ log = <<>>
    /\ calls = <<>>
    /\ stderr = <<>>
    /\ exit_code = -1
    /\ exc = "none"

\* A call from outside main(): the caller sees the return value or the
\* exception, and makes no further call after an exception.
ApiCall(m, args, o) ==
    /\ Effects(m, 0, args, o)
    /\ exc' = o.exc
    /\ UNCHANGED <<pc, argv, verbose, name, pkg_nvr, build_id, packages, idx,
                   strat, which_found, exit_code>>

CanCall(max) == pc = "api" /\ exc = "none" /\ Len(calls) < max

InitValidator ==
    /\ Constructed(Tools)
    /\ fs_link \in [{BuildIdPath(b) : b \in ValBuildIds} -> ValEntries]
    /\ repo_file = FALSE
    /\ root_dirs = {}

ApiBuildIdIsValid ==
    /\ CanCall(MaxValidations)
    /\ \E n \in ValNames, b \in ValBuildIds :
          ApiCall("build_id_is_valid", <<n, <<>>, b>>,
                  ValidateOutcome(<<>>, pkgsys, CurWorld, n, b))

NextValidator == ApiBuildIdIsValid

SpecValidator == InitValidator /\ [][NextValidator]_vars

InitApi ==
    /\ \E found \in ApiFound : Constructed(found)
    /\ fs_link \in InitialLinks
    /\ repo_file \in BOOLEAN
    /\ root_dirs \in InitialDirs

ApiPkgDownloadAndInstall ==
    /\ CanCall(MaxApiCalls)
    /\ \E d \in ApiDescriptors :
          \E o \in PkgDownloadAndInstall(pkgsys, CurWorld, d.name, d.nvr, d.build_id) :
             ApiCall("pkg_download_and_install", <<d.name, d.nvr, d.build_id>>, o)

ApiCleanup ==
    /\ CanCall(MaxApiCalls)
    /\ ApiCall("cleanup", <<>>, Cleanup(pkgsys, CurWorld))

NextApi == ApiPkgDownloadAndInstall \/ ApiCleanup

SpecApi == InitApi /\ [][NextApi]_vars

----------------------------------------------------------------------------
(* Reading the histories *)

EventsOf(i) == SelectSeq(log, LAMBDA e : e.i = i)
CallsOf(i) == SelectSeq(calls, LAMBDA c : c.i = i)

HasEvent(i, cmd) == \E k \in DOMAIN log : log[k].i = i /\ log[k].cmd = cmd

\* Method m returned true for descriptor i.
Succeeded(i, m) ==
    \E k \in DOMAIN calls :
        calls[k].i = i /\ calls[k].m = m /\ calls[k].ret = 1 /\ calls[k].exc = "none"

\* All three strategies returned false for descriptor i.
Exhausted(i) ==
    \E k \in DOMAIN calls :
        /\ calls[k].i = i /\ calls[k].m = "pkg_download_and_install"
        /\ calls[k].ret = 0 /\ calls[k].exc = "none"

TrialOrder == <<"pkg_exists", "pkg_install", "pkg_download_and_install">>

LastOf(q) == q[Len(q)]

\* The command line gives option --o a non-empty value.
GivesOption(args, o) ==
    \E k \in DOMAIN args : args[k].k = "long" /\ args[k].o = o /\ args[k].v # <<>>

HasPositional(args) == \E k \in DOMAIN args : args[k].k = "arg"

\* The process ended in _usage().
UsageExit == pc = "done" /\ stderr # <<>> /\ LastOf(stderr) = "Usage"

----------------------------------------------------------------------------
(* main() on kernel-like names *)

S_kernelshark ==
    <<"k","e","r","n","e","l","s","h","a","r","k">>

NVR_kernel_PAE ==
    <<"k","e","r","n","e","l","-","P","A","E","-","5",".","1","0",".","0",
      "-","1",".","x","8","6","_","6","4">>

NVR_kernelshark ==
    <<"k","e","r","n","e","l","s","h","a","r","k","-","1",".","0","-","1",
      ".","x","8","6","_","6","4">>

\* A --pkg value without a release: name-version.arch.
NVR_kernel_nv ==
    <<"k","e","r","n","e","l","-","5",".","1","0",".","x","8","6","_","6",
      "4">>

KernelNames == {S_bash, S_kernel, S_kernel_PAE, S_kernelshark}

KernelNvrs == {NVR_bash, NVR_kernel, NVR_kernel_PAE, NVR_kernelshark, NVR_kernel_nv}

\* The well-formed command lines over these names and nvrs.
KernelCommandLines ==
    { << OptLong("name", n), OptLong("pkg", p), OptLong("build_id", BID_ab12) >> :
        n \in KernelNames, p \in KernelNvrs }

InitKernel ==
    /\ Started(KernelCommandLines)
    /\ fs_link \in InitialLinks
    /\ repo_file = FALSE
    /\ root_dirs = {}

SpecKernel == InitKernel /\ [][Next]_vars

----------------------------------------------------------------------------
(* Claims *)

\* C1: per descriptor the strategies are tried in the order pkg_exists,
\* pkg_install, pkg_download_and_install, and the first one that succeeds
\* ends the descriptor: no install command for a descriptor whose
\* pkg_exists succeeded, no download command for a descriptor whose
\* pkg_exists or first pkg_install succeeded.
C1_TrialOrderShortCircuits ==
    \A i \in 1..Len(packages) :
        LET cs == CallsOf(i)
            ev == EventsOf(i)
        IN  /\ Len(cs) <= 3
            /\ \A k \in 1..Len(cs) : cs[k].m = TrialOrder[k]
            /\ \A k \in 1..(Len(cs) - 1) : cs[k].ret = 0
            /\ ev # <<>> => ev[1].cmd = "query"
            /\ Succeeded(i, "pkg_exists") => ~HasEvent(i, "install") /\ ~HasEvent(i, "wget")
            /\ Succeeded(i, "pkg_install") => ~HasEvent(i, "wget")

C1_Witness ==
    /\ exit_code = 0
    /\ Len(packages) = 2
    /\ Succeeded(1, "pkg_exists")
    /\ Succeeded(2, "pkg_install")

\* C2: exit code 0 only if every descriptor of the list (the primary one
\* and, for kernel names, the derived devel one) was accepted by one of the
\* three strategies, and for a descriptor with a non-empty build id the
\* accepting strategy ended with the validator returning true for its name
\* and build id.
C2_ExitZeroMeansAccepted ==
    exit_code = 0 =>
        /\ packages = BuildPackageList(name, pkg_nvr, build_id)
        /\ \A i \in 1..Len(packages) :
              LET cs == CallsOf(i)
                  ev == EventsOf(i)
                  d == packages[i]
              IN  /\ cs # <<>>
                  /\ LastOf(cs).ret = 1
                  /\ LastOf(cs).m \in {TrialOrder[k] : k \in 1..3}
                  /\ LastOf(cs).args = <<d.name, d.nvr, d.build_id>>
                  /\ d.build_id # <<>> =>
                        /\ LastOf(ev).cmd = "validate"
                        /\ LastOf(ev).arg = d.build_id
                        /\ LastOf(ev).rc = 1
                        /\ LET e == EntryAt(fs_link, BuildIdPath(d.build_id)) IN
                           /\ e.kind = "link"
                           /\ Basename(e.target) = (IF d.name = S_kernel THEN S_vmlinux ELSE d.name)

C2_Witness ==
    /\ exit_code = 0
    /\ Len(packages) = 2
    /\ packages[1].build_id # <<>>
    /\ Succeeded(1, "pkg_download_and_install")

\* C3: when all three strategies failed for a descriptor the run ends with
\* exit code 1 and nothing is invoked for a later descriptor; descriptors
\* are handled in list order, a later one only after the earlier succeeded.
C3_Order ==
    \A i \in 1..Len(packages) :
        /\ Exhausted(i) =>
              /\ exit_code # 0
              /\ \/ pc = "loop" /\ idx = i /\ strat = "fail"
                 \/ pc = "done" /\ exit_code = 1
              /\ \A j \in (i + 1)..Len(packages) : EventsOf(j) = <<>> /\ CallsOf(j) = <<>>
        /\ (EventsOf(i) # <<>> \/ CallsOf(i) # <<>>) =>
              \A j \in 1..(i - 1) :
                 \E m \in {TrialOrder[k] : k \in 1..3} : Succeeded(j, m)

\* C3 (whole claim): the order above in every state, and the step taken
\* after the third failure is the exit with code 1, invoking nothing.
C3_ExhaustionIsFatal ==
    /\ []C3_Order
    /\ [][(pc = "loop" /\ idx <= Len(packages) /\ Exhausted(idx))
             => (pc' = "done" /\ exit_code' = 1 /\ log' = log /\ calls' = calls)]_vars

C3_Witness ==
    /\ Len(packages) = 2
    /\ Exhausted(1)
    /\ pc = "done"
    /\ exit_code = 1

\* C4: every run that ends by strategy exhaustion has invoked
\* PkgSystem.cleanup.
C4_CleanupOnExhaustion ==
    (pc = "done" /\ \E i \in 1..Len(packages) : Exhausted(i)) =>
        \E k \in DOMAIN calls : calls[k].m = "cleanup"

\* A command line with --name and --pkg and an empty (or no) --build_id.
C5_Case(args) ==
    /\ GivesOption(args, "name")
    /\ GivesOption(args, "pkg")
    /\ ~GivesOption(args, "build_id")
    /\ \A k \in DOMAIN args : args[k].k = "short" \/ args[k].o \in LongOpts

\* C5, as claimed: a run given --name and --pkg with an empty build id
\* exits with code 0 and invokes no install and no download command.
C5_EmptyBuildIdExitsZero ==
    (pc = "done" /\ C5_Case(argv)) =>
        /\ exit_code = 0
        /\ \A k \in DOMAIN log : log[k].cmd \notin {"install", "wget"}

\* C5, amended: a run given --name and --pkg with an empty build id exits
\* with code 1 from _usage() before any command is invoked; a run in which
\* every descriptor is accepted by pkg_exists exits with 0 having invoked no
\* install, debug-info or download command, and its build id is not empty
\* and was accepted by the validator.
C5_EmptyBuildIdIsUsageError ==
    /\ (pc = "done" /\ C5_Case(argv)) =>
          /\ exit_code = 1
          /\ UsageExit
          /\ log = <<>>
          /\ calls = <<>>
    /\ (pc = "done" /\ packages # <<>>
        /\ \A i \in 1..Len(packages) : Succeeded(i, "pkg_exists")) =>
          /\ exit_code = 0
          /\ build_id # <<>>
          /\ \E k \in DOMAIN log :
                log[k] = [cmd |-> "validate", arg |-> build_id, rc |-> 1, i |-> 1]
          /\ \A k \in DOMAIN log : log[k].cmd \in {"query", "validate"}

C5_Witness ==
    /\ pc = "done"
    /\ C5_Case(argv)
    /\ \E k \in DOMAIN argv : argv[k] = OptLong("build_id", <<>>)
    /\ exit_code = 1

C6_Defective(args) ==
    \/ HasPositional(args)
    \/ ~GivesOption(args, "name")
    \/ ~GivesOption(args, "pkg")
    \/ ~GivesOption(args, "build_id")

\* C6: when --name, --pkg or --build_id is missing, or a positional argument
\* is present, the process prints usage and exits with code 1 before the
\* environment is probed and before any command runs; cleanup is not run.
C6_UsageBeforeAnything ==
    /\ [][(pc = "cmdline" /\ C6_Defective(argv)) =>
             (/\ pc' = "done"
              /\ exit_code' = 1
              /\ stderr' # <<>>
              /\ stderr'[Len(stderr')] = "Usage")]_vars
    /\ [](UsageExit =>
             /\ exit_code = 1
             /\ which_found = {}
             /\ pkgsys = PkgSystemClass
             /\ fs_link \in InitialLinks
             /\ log = <<>>
             /\ calls = <<>>)
    /\ [][pc # "done"]_vars

C6_Witness ==
    /\ UsageExit
    /\ stderr = <<"Usage">>
    /\ Len(argv) = 4
    /\ GivesOption(argv, "build_id")
    /\ HasPositional(argv)
    /\ GivesOption(argv, "name")
    /\ GivesOption(argv, "pkg")

\* The step is a call of cleanup.
C7_CleanupStep == Len(calls') = Len(calls) + 1 /\ LastOf(calls').m = "cleanup"

\* C7: cleanup is idempotent: a call after an earlier cleanup call, or a
\* call when the manual-download strategy never downloaded anything, changes
\* nothing in the file system and raises no error.
C7_CleanupIdempotent ==
    [][(/\ C7_CleanupStep
        /\ \/ \E k \in DOMAIN calls : calls[k].m = "cleanup"
           \/ ~ \E k \in DOMAIN log : log[k].cmd = "wget" /\ log[k].rc = 0)
         => (/\ exc' = "none"
             /\ UNCHANGED <<repo_file, root_dirs, fs_link>>)]_vars

\* C8: cleanup removes the repository file only if this run wrote it, and
\* the download directory only if this run made it; a local.repo that was
\* there before the process started is left in place.
C8_CleanupRemovesOnlyOwn ==
    \A k \in DOMAIN log :
        /\ (log[k].cmd = "remove" /\ log[k].rc = 0) =>
              \E j \in 1..(k - 1) : log[j].cmd = "write_repo"
        /\ (log[k].cmd = "rmtree" /\ log[k].rc = 0) =>
              \E j \in 1..(k - 1) : log[j].cmd = "mkdir" /\ log[j].arg = log[k].arg

\* b is the base filename of path p: the part of p after its last "/".
C9_IsBasename(b, p) ==
    \E k \in 0..Len(p) :
        /\ b = SubSeq(p, k + 1, Len(p))
        /\ k > 0 => p[k] = "/"
        /\ \A j \in DOMAIN b : b[j] # "/"

\* /usr/lib/debug/.build-id/<first 2 chars>/<rest>
C9_Path(b) ==
    LET n == IF Len(b) < 2 THEN Len(b) ELSE 2 IN
    [j \in 1..(Len(b) + 2) |->
        IF j = 1 THEN "/usr/lib/debug/.build-id/"
        ELSE IF j <= n + 1 THEN b[j - 1]
        ELSE IF j = n + 2 THEN "/"
        ELSE b[j - 2]]

C9_Matches(n, e) ==
    /\ e.kind = "link"
    /\ IF n = S_kernel THEN C9_IsBasename(S_vmlinux, e.target)
       ELSE \E k \in 0..Len(n) :
               /\ C9_IsBasename(SubSeq(n, k + 1, Len(n)), n)
               /\ C9_IsBasename(SubSeq(n, k + 1, Len(n)), e.target)

\* C9: build_id_is_valid(name, build_id) returns true iff the path
\* /usr/lib/debug/.build-id/<first 2 chars>/<rest> exists and the base
\* filename of its link target equals "vmlinux" when name is "kernel" and
\* the base filename of name otherwise; it returns false when the path is
\* absent or the base filenames differ.
C9_ValidatorVerdict ==
    \A k \in DOMAIN calls :
        calls[k].m = "build_id_is_valid" =>
            LET n == calls[k].args[1]
                e == EntryAt(fs_link, C9_Path(calls[k].args[3]))
            IN  /\ calls[k].ret \in {0, 1}
                /\ calls[k].ret = 1 <=> C9_Matches(n, e)
                /\ e.kind \in {"absent", "dangling"} =>
                      calls[k].ret = 0 /\ calls[k].exc = "none"
                /\ (e.kind = "link" /\ ~C9_Matches(n, e)) =>
                      calls[k].ret = 0 /\ calls[k].exc = "none"

C9_Witness ==
    /\ \E k \in DOMAIN calls :
          calls[k].args[1] = S_kernel /\ calls[k].ret = 1
    /\ \E k \in DOMAIN calls :
          /\ calls[k].args[1] = S_usr_bin_bash
          /\ calls[k].ret = 0
          /\ calls[k].exc = "none"
          /\ EntryAt(fs_link, BuildIdPath(calls[k].args[3])).kind = "link"

\* C10: the validator and the debug-info installer are never invoked for a
\* descriptor with an empty build id: pkg_exists succeeds as soon as the
\* query exits 0, pkg_install as soon as the install command exits 0.
C10_EmptyBuildIdSkipsVerification ==
    \A i \in 1..Len(packages) :
        packages[i].build_id = <<>> =>
            LET cs == CallsOf(i)
                ev == EventsOf(i)
            IN  /\ ~HasEvent(i, "validate")
                /\ ~HasEvent(i, "debuginfo")
                /\ Len(cs) >= 1 =>
                      /\ ev[1].cmd = "query"
                      /\ cs[1].ret = 1 <=> ev[1].rc = 0
                /\ Len(cs) >= 2 =>
                      /\ ev[2].cmd = "install"
                      /\ cs[2].ret = 1 <=> ev[2].rc = 0
                /\ (Len(cs) >= 3 /\ HasEvent(i, "createrepo") /\ LastOf(ev).cmd = "install") =>
                      (cs[3].ret = 1 <=> LastOf(ev).rc = 0)

C10_Witness ==
    /\ Len(packages) = 2
    /\ packages[2].build_id = <<>>
    /\ Succeeded(2, "pkg_install")
    /\ exit_code = 0

C11_IsFedora(d) ==
    /\ Len(d) = 6
    /\ \A k \in 1..6 : d[k] \in {S_fedora[k], <<"F","E","D","O","R","A">>[k]}

\* The instance has no downloader or no distribution named fedora.
C11_Refusing ==
    \/ "wget" \notin which_found
    \/ pkgsys.distro_id = NoneStr
    \/ ~C11_IsFedora(pkgsys.distro_id)

\* C11: when the downloader was not found, or the detected distribution is
\* unknown or is not "fedora" compared without regard to case, every
\* pkg_download_and_install returns false having run no download command,
\* written no repo file, made no directory and run no createrepo_c, and
\* reports "Can't download package".
C11_RefusedDownloadDoesNothing ==
    (pc \in {"loop", "exit0", "done"} /\ calls # <<>> /\ C11_Refusing) =>
        /\ \A k \in 1..Len(log) :
              log[k].cmd \notin {"wget", "mkdir", "write_repo", "createrepo"}
        /\ pkgsys.local_repo_path = ""
        /\ pkgsys.local_rpm_dir = <<>>
        /\ \A k \in 1..Len(calls) :
              calls[k].m = "pkg_download_and_install" =>
                  calls[k].ret = 0 /\ calls[k].exc = "none"
        /\ (pc = "loop" /\ LastOf(calls).m = "pkg_download_and_install") =>
              LastOf(stderr) = "Can't download package"

\* A downloader is there, the distribution is not Fedora, and the download
\* strategy was reached and refused.
C11_Witness ==
    /\ "wget" \in which_found
    /\ pkgsys.distro_id = <<"U","b","u","n","t","u">>
    /\ calls # <<>>
    /\ LastOf(calls).m = "pkg_download_and_install"
    /\ LastOf(calls).ret = 0
    /\ strat = "fail"

\* "kernel" or "kernel-<variant>".
C12_IsKernelName(n) ==
    \/ n = S_kernel
    \/ IsPrefix(S_kernel \o <<"-">>, n) /\ Len(n) > Len(S_kernel) + 1

\* C12: for the name "kernel" or "kernel-<variant>" the list is the primary
\* descriptor followed by exactly one more, named name + "-devel", with an
\* empty build id and the primary nvr in which name + "-devel" stands for
\* the name; for any other name the list is the primary descriptor alone.
C12_KernelExpansion ==
    pc \in {"probe", "loop", "exit0"} =>
        /\ packages # <<>>
        /\ packages[1] = Descriptor(name, pkg_nvr, build_id)
        /\ IF C12_IsKernelName(name)
           THEN /\ Len(packages) = 2
                /\ packages[2].name = name \o S_devel
                /\ packages[2].build_id = <<>>
                /\ IsPrefix(name, pkg_nvr) =>
                      packages[2].nvr = (name \o S_devel) \o Drop(pkg_nvr, Len(name))
           ELSE Len(packages) = 1

\* s has the form name-version-release.arch: word characters, a hyphen,
\* hyphen-free text, a hyphen, hyphen-free text, a dot, word characters.
C13_IsNvra(s) ==
    \E i \in 2..Len(s) :
        /\ s[i] = "-"
        /\ \A x \in 1..(i - 1) : IsWord(s[x])
        /\ \E j \in (i + 2)..Len(s) :
              /\ s[j] = "-"
              /\ \A x \in (i + 1)..(j - 1) : s[x] # "-"
              /\ \E k \in (j + 2)..(Len(s) - 1) :
                    /\ s[k] = "."
                    /\ \A x \in (j + 1)..(k - 1) : s[x] # "-"
                    /\ \A x \in (k + 1)..Len(s) : IsWord(s[x])

\* The commands of descriptor i from its download command on, without the
\* directory wget makes.
C13_DownloadEvents(i) ==
    LET ev == EventsOf(i)
        k0 == CHOOSE k \in 1..Len(ev) :
                 ev[k].cmd = "wget" /\ \A j \in 1..(k - 1) : ev[j].cmd # "wget"
    IN  IF HasEvent(i, "wget")
        THEN SelectSeq(SubSeq(ev, k0, Len(ev)), LAMBDA e : e.cmd # "mkdir")
        ELSE <<>>

\* C13: in pkg_download_and_install the steps run in the order parse,
\* download, repo file, createrepo_c, pkg_install, and a failing step ends
\* the call with false and without the later steps: no download for an nvr
\* that is not name-version-release.arch; after a download that exited
\* non-zero nothing else; after a createrepo_c that exited non-zero no
\* install; otherwise the install command for the same nvr follows and the
\* call returns what that pkg_install returns.
C13_DownloadStepsInOrder ==
    \A i \in 1..Len(packages) :
        LET d == C13_DownloadEvents(i)
            cs == CallsOf(i)
            c == LastOf(cs)
            r == IF Len(d) >= 2 /\ d[2].cmd = "write_repo" THEN 3 ELSE 2
        IN  /\ ~HasEvent(i, "wget") =>
                  ~HasEvent(i, "write_repo") /\ ~HasEvent(i, "createrepo")
            /\ ~C13_IsNvra(packages[i].nvr) => d = <<>>
            /\ d # <<>> =>
                  /\ c.m = "pkg_download_and_install"
                  /\ d[1].cmd = "wget"
                  /\ d[1].arg = packages[i].nvr
                  /\ \A k \in 2..Len(d) : d[k].cmd # "wget"
                  /\ d[1].rc # 0 => Len(d) = 1 /\ c.ret = 0 /\ c.exc = "none"
                  /\ d[1].rc = 0 =>
                        /\ Len(d) >= r
                        /\ d[r].cmd = "createrepo"
                        /\ \A k \in 1..Len(d) :
                              /\ d[k].cmd = "write_repo" => k = 2
                              /\ d[k].cmd = "createrepo" => k = r
                        /\ d[r].rc # 0 => Len(d) = r /\ c.ret = 0
                        /\ d[r].rc = 0 =>
                              /\ Len(d) > r
                              /\ d[r + 1].cmd = "install"
                              /\ d[r + 1].arg = packages[i].nvr
                              /\ c.ret = 1 <=>
                                    \/ LastOf(d).cmd = "validate" /\ LastOf(d).rc = 1
                                    \/ /\ LastOf(d).cmd = "install" /\ LastOf(d).rc = 0
                                       /\ packages[i].build_id = <<>>

\* The first descriptor went through every step of the download strategy
\* and was accepted; the nvr of the second one does not parse, so its
\* download strategy failed without a download.
C13_Witness ==
    /\ Len(packages) = 2
    /\ Succeeded(1, "pkg_download_and_install")
    /\ HasEvent(1, "write_repo")
    /\ Len(C13_DownloadEvents(1)) = 6
    /\ ~C13_IsNvra(packages[2].nvr)
    /\ Len(CallsOf(2)) = 3
    /\ C13_DownloadEvents(2) = <<>>

\* The commands one pkg_install with a non-empty build id ran (ev) and what
\* it returned (c): the install command; then, only if that exited 0, the
\* debug-info installer for the same nvr; then, only if that exited 0, the
\* validator; false when either command exited non-zero.
C14_InstallShape(ev, c, d) ==
    /\ ev # <<>>
    /\ ev[1].cmd = "install"
    /\ ev[1].arg = d.nvr
    /\ ev[1].rc # 0 => Len(ev) = 1 /\ c.ret = 0 /\ c.exc = "none"
    /\ ev[1].rc = 0 =>
          /\ Len(ev) >= 2
          /\ ev[2].cmd = "debuginfo"
          /\ ev[2].arg = d.nvr
          /\ ev[2].rc # 0 => Len(ev) = 2 /\ c.ret = 0
          /\ ev[2].rc > 0 => c.exc = "none"
          /\ ev[2].rc = 0 =>
                /\ Len(ev) = 3
                /\ ev[3].cmd = "validate"
                /\ ev[3].arg = d.build_id
                /\ c.ret = ev[3].rc

\* C14: in pkg_install with a non-empty build id the debug-info installer
\* runs only right after the install command for the same nvr exited 0, the
\* validator only right after the debug-info installer exited 0, and a
\* non-zero exit of either makes pkg_install return false without a
\* validator call; the same holds for the pkg_install that
\* pkg_download_and_install ends with.
C14_InstallThenDebuginfoThenValidator ==
    [][ /\ \A k \in 1..Len(log') :
              /\ log'[k].cmd = "debuginfo" =>
                    /\ k > 1
                    /\ log'[k - 1].cmd = "install"
                    /\ log'[k - 1].rc = 0
                    /\ log'[k - 1].i = log'[k].i
                    /\ log'[k - 1].arg = log'[k].arg
              /\ (log'[k].cmd = "validate" /\ k > 1 /\ log'[k - 1].cmd # "query") =>
                    /\ log'[k - 1].cmd = "debuginfo"
                    /\ log'[k - 1].rc = 0
                    /\ log'[k - 1].i = log'[k].i
        /\ (InLoop("install") /\ packages[idx].build_id # <<>>) =>
              C14_InstallShape(SubSeq(log', Len(log) + 1, Len(log')),
                               LastOf(calls'), packages[idx])
        /\ ( /\ InLoop("download") /\ packages[idx].build_id # <<>>
             /\ LastOf(log').cmd \in {"install", "debuginfo", "validate"}
             /\ Len(log') > Len(log) ) =>
              LET new == SubSeq(log', Len(log) + 1, Len(log'))
                  k0 == CHOOSE k \in 1..Len(new) : new[k].cmd = "install"
              IN  C14_InstallShape(SubSeq(new, k0, Len(new)), LastOf(calls'),
                                   packages[idx])
      ]_vars

\* pkg_install of a descriptor with a build id: the install command exited
\* 0, the debug-info installer exited non-zero, and the strategy failed.
C14_Witness ==
    /\ pc = "loop"
    /\ strat = "download"
    /\ packages[idx].build_id # <<>>
    /\ LastOf(calls).m = "pkg_install"
    /\ LastOf(calls).ret = 0
    /\ Len(log) >= 3
    /\ LastOf(log).cmd = "debuginfo"
    /\ LastOf(log).rc = 1
    /\ log[Len(log) - 1].cmd = "install"
    /\ log[Len(log) - 1].rc = 0

C15_Writes(q) == {k \in 1..Len(q) : q[k].cmd = "write_repo"}

\* C15: one process writes /etc/yum.repos.d/local.repo at most once, however
\* many descriptors reach pkg_download_and_install, and a step that starts
\* with the file in place does not write it.
C15_RepoFileWrittenAtMostOnce ==
    [][ /\ Cardinality(C15_Writes(log')) <= 1
        /\ repo_file => C15_Writes(log') = C15_Writes(log)
        /\ C15_Writes(log') # C15_Writes(log) => repo_file'
      ]_vars

\* Two descriptors went through a download that exited 0; the repo file was
\* written for the first one only.
C15_Witness ==
    /\ Len(packages) = 2
    /\ \E k \in 1..Len(log) : log[k].cmd = "wget" /\ log[k].rc = 0 /\ log[k].i = 1
    /\ \E k \in 1..Len(log) : log[k].cmd = "wget" /\ log[k].rc = 0 /\ log[k].i = 2
    /\ HasEvent(2, "createrepo")
    /\ \E k \in C15_Writes(log) : log[k].i = 1
    /\ Cardinality(C15_Writes(log)) = 1

C16_Cleanups == {k \in 1..Len(calls) : calls[k].m = "cleanup"}

\* C16: a run that exits 0 called cleanup exactly once, as its last call and
\* right after the strategy that accepted the last descriptor, and at the
\* exit the repo file and the download directory that
\* pkg_download_and_install recorded in this run are gone.
C16_ExitZeroCleanedUp ==
    exit_code = 0 =>
        /\ C16_Cleanups = {Len(calls)}
        /\ Len(calls) >= 2
        /\ calls[Len(calls) - 1].i = Len(packages)
        /\ calls[Len(calls) - 1].ret = 1
        /\ LastOf(calls).exc = "none"
        /\ pkgsys.local_repo_path # "" => ~repo_file
        /\ pkgsys.local_rpm_dir # <<>> => pkgsys.local_rpm_dir \notin root_dirs
        /\ (\E k \in 1..Len(log) : log[k].cmd = "wget" /\ log[k].rc = 0) =>
              /\ pkgsys.local_repo_path # ""
              /\ pkgsys.local_rpm_dir # <<>>
              /\ ~repo_file
              /\ \A k \in 1..Len(log) :
                    log[k].cmd = "mkdir" => log[k].arg \notin root_dirs

\* A run that downloaded a package into a directory it made, wrote the repo
\* file, and exited 0.
C16_Witness ==
    /\ exit_code = 0
    /\ \E k \in 1..Len(log) : log[k].cmd = "mkdir"
    /\ \E k \in 1..Len(log) : log[k].cmd = "write_repo"
    /\ LastOf(log).cmd = "rmtree"

C17_Count(i, cmd) == Cardinality({k \in 1..Len(log) : log[k].i = i /\ log[k].cmd = cmd})

\* The number of statements of main() left at most: one per strategy and
\* descriptor still to come, then cleanup and the exit.
C17_StepsLeft ==
    CASE pc = "cmdline" -> 13
      [] pc = "main" -> 12
      [] pc = "probe" -> 11
      [] pc = "loop" ->
            2 + 4 * (Len(packages) + 1 - idx)
              - (CASE strat = "exists" -> 0
                   [] strat = "install" -> 1
                   [] strat = "download" -> 2
                   [] OTHER -> 3)
      [] pc = "exit0" -> 1
      [] OTHER -> 0

\* Some statement of main() can run: ENABLED Next, with the outcomes of the
\* two longer strategies computed before the step is looked for.
C17_CanStep ==
    \/ ENABLED (HandleCommandLine \/ BuildPackages \/ PkgSystemInit)
    \/ ENABLED (TryPkgExists \/ GiveUp \/ MainCleanup \/ MainExit)
    \/ /\ InLoop("install")
       /\ \E S \in { PkgInstall(pkgsys, CurWorld, packages[idx].name, packages[idx].nvr,
                               packages[idx].build_id, <<>>) } :
             ENABLED (\E o \in S : LoopStep("pkg_install", o))
    \/ /\ InLoop("download")
       /\ \E S \in { PkgDownloadAndInstall(pkgsys, CurWorld, packages[idx].name,
                                           packages[idx].nvr, packages[idx].build_id) } :
             ENABLED (\E o \in S : LoopStep("pkg_download_and_install", o))

\* C17: every run in which each command returns ends, with exit code 0 or
\* 1: until the process has exited a next statement can always run, every
\* statement run leaves fewer to run, and none are left only at the exit;
\* and for each descriptor the query command ran at most once, the download
\* command at most once, createrepo_c at most once and the install command
\* at most twice.
C17_TerminatesWithoutRetries ==
    /\ [](pc # "done" => C17_CanStep)
    /\ [](C17_StepsLeft >= 0 /\ (C17_StepsLeft = 0 <=> pc = "done"))
    /\ [][C17_StepsLeft' < C17_StepsLeft]_vars
    /\ [](pc = "done" => exit_code \in {0, 1})
    /\ [](\A i \in 1..Len(packages) :
              /\ C17_Count(i, "query") <= 1
              /\ C17_Count(i, "wget") <= 1
              /\ C17_Count(i, "createrepo") <= 1
              /\ C17_Count(i, "install") <= 2)

\* A finished run in which a descriptor used the whole allowance: one query,
\* one download, one createrepo_c and two install commands.
C17_Witness ==
    /\ pc = "done"
    /\ \E i \in 1..Len(packages) :
          /\ C17_Count(i, "query") = 1
          /\ C17_Count(i, "wget") = 1
          /\ C17_Count(i, "createrepo") = 1
          /\ C17_Count(i, "install") = 2

\* rpm is not on the PATH, or neither dnf nor yum is.
C18_Fatal(found) ==
    \/ "rpm" \notin found
    \/ "dnf" \notin found /\ "yum" \notin found

\* C18: PkgSystem() ends the process exactly when rpm is absent or neither
\* dnf nor yum is found, then with exit code 1 and before any strategy ran
\* for any descriptor; otherwise the loop starts with dnf as the package
\* manager when dnf is there and yum when it is not, whether or not wget was
\* found and whatever the distribution detection gave.
C18_StartupFatalExactly ==
    [][ pc = "probe" =>
          IF C18_Fatal(which_found')
          THEN /\ pc' = "done"
               /\ exit_code' = 1
               /\ exc' = "none"
               /\ log' = <<>>
               /\ calls' = <<>>
               /\ idx' = 0
          ELSE /\ pc' = "loop"
               /\ exit_code' = -1
               /\ idx' = 1
               /\ pkgsys'.pkgmgr_path =
                     (IF "dnf" \in which_found' THEN "/usr/bin/dnf" ELSE "/usr/bin/yum")
      ]_vars

\* The loop was entered on a host with rpm, dnf and yum but without wget,
\* without lsb_release and with an unrecognised platform: dnf was chosen.
C18_Witness ==
    /\ pc = "loop"
    /\ calls = <<>>
    /\ {"rpm", "dnf", "yum"} \subseteq which_found
    /\ "wget" \notin which_found
    /\ "lsb_release" \notin which_found
    /\ pkgsys.distro_id = <<>>
    /\ pkgsys.wget_path = None
    /\ pkgsys.pkgmgr_path = "/usr/bin/dnf"

\* C19: whenever the debug-info installer is run, the command it is run by
\* was found on the PATH when PkgSystem was constructed: dnf, or
\* debuginfo-install beside yum.
C19_DebuginfoInstallerResolved ==
    \A k \in 1..Len(log) :
        log[k].cmd = "debuginfo" =>
            /\ pkgsys.debuginfo_install[1] # None
            /\ "dnf" \in which_found \/ "debuginfo-install" \in which_found
            /\ log[k].rc >= 0

C20_Hyphens(s) == Cardinality({k \in 1..Len(s) : s[k] = "-"})

\* No download was attempted for descriptor i and the download strategy did
\* not accept it.
C20_NeverDownloaded(i) ==
    /\ ~HasEvent(i, "wget")
    /\ ~HasEvent(i, "createrepo")
    /\ ~Succeeded(i, "pkg_download_and_install")

\* The run derived a devel descriptor and --pkg starts with --name.
C20_KernelRun == Len(packages) = 2 /\ IsPrefix(name, pkg_nvr)

\* --pkg is --name followed by at least a version and a release, each led by
\* a hyphen.
C20_FullNvr == IsPrefix(name, pkg_nvr) /\ C20_Hyphens(Drop(pkg_nvr, Len(name))) >= 2

\* C20 as stated: no descriptor whose nvr has three or more hyphens is ever
\* downloaded, and in every kernel run whose --pkg starts with --name neither
\* the derived devel descriptor nor a primary descriptor with a hyphen in
\* its name is.
C20_DevelNeverDownloaded ==
    /\ \A i \in 1..Len(packages) :
          C20_Hyphens(packages[i].nvr) >= 3 => C20_NeverDownloaded(i)
    /\ C20_KernelRun =>
          /\ C20_NeverDownloaded(2)
          /\ C20_Hyphens(name) >= 1 => C20_NeverDownloaded(1)

\* C20 amended: no descriptor whose nvr has three or more hyphens is ever
\* downloaded; and in every run whose --pkg is --name followed by
\* -version-release.arch (at least two more hyphens), neither the derived
\* devel descriptor nor a primary descriptor with a hyphen in its name is.
C20_FullNvrDevelNeverDownloaded ==
    /\ \A i \in 1..Len(packages) :
          C20_Hyphens(packages[i].nvr) >= 3 => C20_NeverDownloaded(i)
    /\ (C20_FullNvr /\ packages # <<>>) =>
          /\ Len(packages) = 2 => C20_NeverDownloaded(2)
          /\ C20_Hyphens(name) >= 1 => C20_NeverDownloaded(1)

\* On a Fedora host with wget, in a run whose --pkg is a full nvr, the
\* primary descriptor was accepted and the derived devel descriptor reached
\* the download strategy, which gave up at the parse without a download.
C20_Witness ==
    /\ C20_FullNvr
    /\ Len(packages) = 2
    /\ pc = "loop" /\ idx = 2 /\ strat = "fail"
    /\ "wget" \in which_found
    /\ Lower(pkgsys.distro_id) = S_fedora
    /\ LastOf(calls).m = "pkg_download_and_install"
    /\ LastOf(calls).ret = 0
    /\ LastOf(stderr) = "Can't parse package nvr"
    /\ C20_NeverDownloaded(2)

====
